---- MODULE Spec2Model ----
(***************************************************************************)
(* Model of the modify_file tool of the Obsidian MCP server                *)
(* (src/src/tools/files.js) and of its helper findNthOccurrence            *)
(* (src/src/utils.js).  Text is a sequence of one-character strings;       *)
(* offsets are 0-based as in JavaScript.                                   *)
(***************************************************************************)
EXTENDS Integers, Sequences, FiniteSets, TLC

(* ------------------------------ bounds --------------------------------- *)
MaxFile == 2
MaxText == 1
MaxAnchor == 1
MaxOcc == 2
MaxOff == 2
MaxOps == 2
MaxHay == 6
MaxNeedle == 2
MaxN == 4
MaxBuf == 4
MaxProbeText == 1
MaxProbeAnchor == 2
MaxProbeOcc == 3
MaxProbeOff == 4
MaxProbeIndex == 1
MaxSegs == 3
MaxVaultSegs == 1
MaxCalls == 2
MaxRaceOps == 1
MaxReadLen == 4
MaxLine == 4

Chars == {"a", "b"}
Procs == {1}

Min(x, y) == IF x < y THEN x ELSE y
Max(x, y) == IF x > y THEN x ELSE y

RECURSIVE StrsOfLen(_)
StrsOfLen(n) ==
  IF n = 0 THEN {<<>>}
  ELSE {Append(s, c) : s \in StrsOfLen(n - 1), c \in Chars}

Strs(n) == UNION {StrsOfLen(k) : k \in 0..n}

(* --------------------- JavaScript string primitives -------------------- *)

\* String.prototype.slice(start, end): negative arguments count from the
\* end, both are clamped to [0, length], an empty result when start >= end.
SliceIdx(len, i) == IF i < 0 THEN Max(len + i, 0) ELSE Min(i, len)
Slice(s, start, end) ==
  SubSeq(s, SliceIdx(Len(s), start) + 1, SliceIdx(Len(s), end))
SliceFrom(s, start) == Slice(s, start, Len(s))

\* s occurs in h at 0-based offset i
MatchAt(h, n, i) ==
  /\ i >= 0
  /\ i + Len(n) <= Len(h)
  /\ \A k \in 1..Len(n) : h[i + k] = n[k]

\* String.prototype.indexOf(needle, fromIndex): the first offset >= fromIndex
\* at which needle occurs, -1 when there is none.
RECURSIVE IndexOfFrom(_, _, _)
IndexOfFrom(h, n, i) ==
  IF i + Len(n) > Len(h) THEN -1
  ELSE IF MatchAt(h, n, i) THEN i
  ELSE IndexOfFrom(h, n, i + 1)
IndexOf(h, n, fromIndex) == IndexOfFrom(h, n, Min(Max(fromIndex, 0), Len(h)))

\* String.prototype.split(separator) for a string separator: the pieces
\* between the left-to-right non-overlapping matches; an empty separator
\* splits into single characters and "".split("") is the empty array.
RECURSIVE SplitFrom(_, _, _)
SplitFrom(s, sep, from) ==
  LET i == IndexOf(s, sep, from)
  IN IF i = -1 THEN <<Slice(s, from, Len(s))>>
     ELSE <<Slice(s, from, i)>> \o SplitFrom(s, sep, i + Len(sep))
Split(s, sep) ==
  IF Len(sep) = 0 THEN [k \in 1..Len(s) |-> <<s[k]>>]
  ELSE SplitFrom(s, sep, 0)

\* Array.prototype.join(separator)
RECURSIVE Join(_, _)
Join(parts, sep) ==
  IF Len(parts) = 0 THEN <<>>
  ELSE IF Len(parts) = 1 THEN parts[1]
  ELSE parts[1] \o sep \o Join(Tail(parts), sep)

(* --------------------------- findNthOccurrence ------------------------- *)

\* A call either returns a value or throws an Error with a message.
Return(v) == [thrown |-> FALSE, value |-> v]
Throw(msg) == [thrown |-> TRUE, message |-> msg]

RECURSIVE findNthLoop(_, _, _, _, _, _)
findNthLoop(haystack, needle, occurrence, i, index, fromIndex) ==
  IF ~(i < occurrence) THEN index
  ELSE LET found == IndexOf(haystack, needle, fromIndex)
       IN IF found = -1 THEN -1
          ELSE findNthLoop(haystack, needle, occurrence, i + 1, found,
                           found + Len(needle))

\* a variant that resumes one character after the start of a match
RECURSIVE findNthLoopOverlap(_, _, _, _, _, _)
findNthLoopOverlap(haystack, needle, occurrence, i, index, fromIndex) ==
  IF ~(i < occurrence) THEN index
  ELSE LET found == IndexOf(haystack, needle, fromIndex)
       IN IF found = -1 THEN -1
          ELSE findNthLoopOverlap(haystack, needle, occurrence, i + 1, found,
                                  found + 1)
findNthOccurrenceOverlap(haystack, needle, occurrence) ==
  IF Len(needle) = 0 THEN Throw("Anchor/target text must not be empty")
  ELSE Return(findNthLoopOverlap(haystack, needle, occurrence, 0, -1, 0))

\* a variant without the check of the needle
findNthOccurrenceUnguarded(haystack, needle, occurrence) ==
  Return(findNthLoop(haystack, needle, occurrence, 0, -1, 0))

\* a variant whose index starts at 0 instead of -1
findNthOccurrenceFromZero(haystack, needle, occurrence) ==
  IF Len(needle) = 0 THEN Throw("Anchor/target text must not be empty")
  ELSE Return(findNthLoop(haystack, needle, occurrence, 0, 0, 0))

findNthOccurrence(haystack, needle, occurrence) ==
  IF Len(needle) = 0 THEN Throw("Anchor/target text must not be empty")
  ELSE Return(findNthLoop(haystack, needle, occurrence, 0, -1, 0))

(* ------------------------- modify_file inputSchema --------------------- *)

\* a variant that accepts the empty string
StringAny(s) == TRUE

\* z.string().min(1)
StringMin1(s) == Len(s) >= 1

\* z.number().int().min(1).optional(): an absent field is <<>>, a present
\* one is <<n>>.
OccurrenceOK(o) == o = <<>> \/ o[1] >= 1

\* z.number().int().min(0)
OffsetOK(n) == n >= 0

\* the issues zod reports for one element of the discriminated union
OperationIssues(op) ==
  CASE op.type \in {"append", "prepend"} -> {}
    [] op.type \in {"insert_after", "insert_before"} ->
         (IF StringMin1(op.anchor) THEN {} ELSE {"anchor: too_small"})
         \cup (IF OccurrenceOK(op.occurrence) THEN {}
               ELSE {"occurrence: too_small"})
    [] op.type = "replace" ->
         (IF StringMin1(op.target) THEN {} ELSE {"target: too_small"})
         \cup (IF OccurrenceOK(op.occurrence) THEN {}
               ELSE {"occurrence: too_small"})
    [] op.type = "replace_range" ->
         (IF OffsetOK(op.startOffset) THEN {} ELSE {"startOffset: too_small"})
         \cup (IF OffsetOK(op.endOffset) THEN {}
               ELSE {"endOffset: too_small"})
    [] OTHER -> {"type: invalid_union_discriminator"}

\* a variant that accepts the empty array
ArrayIssuesNone(operations) == {}

\* z.array(...).min(1)
ArrayIssues(operations) ==
  IF Len(operations) >= 1 THEN {} ELSE {"operations: too_small"}

SchemaIssues(operations) ==
  ArrayIssues(operations)
  \cup UNION {OperationIssues(operations[i]) : i \in 1..Len(operations)}

(* ----------------------- modify_file: one operation -------------------- *)

Applied(c, n) == [ok |-> TRUE, content |-> c, note |-> n]
Raised(msg, occ) == [ok |-> FALSE, message |-> msg, occurrence |-> occ]

\* operation.occurrence ?? 1
OccurrenceOr1(op) == IF op.occurrence = <<>> THEN 1 ELSE op.occurrence[1]

\* a variant whose append labels its note with the 0-based loop index
CaseAppendNoteZeroBased(content, operation, index) ==
  Applied(content \o operation.text,
          [index |-> index, what |-> "appended",
           n |-> Len(operation.text)])

CaseAppend(content, operation, index) ==
  Applied(content \o operation.text,
          [index |-> index + 1, what |-> "appended",
           n |-> Len(operation.text)])

\* a variant that puts the text of a prepend at the end of the buffer
CasePrependAtEnd(content, operation, index) ==
  Applied(content \o operation.text,
          [index |-> index + 1, what |-> "prepended",
           n |-> Len(operation.text)])

CasePrepend(content, operation, index) ==
  Applied(operation.text \o content,
          [index |-> index + 1, what |-> "prepended",
           n |-> Len(operation.text)])

\* a variant that splices at the start of the match
CaseInsertAfterAtMatchStart(content, operation, index) ==
  LET occurrence == OccurrenceOr1(operation)
      found == findNthOccurrence(content, operation.anchor, occurrence)
  IN IF found.thrown THEN Raised(found.message, <<>>)
     ELSE IF found.value = -1
       THEN Raised("Anchor text not found for insert_after", <<occurrence>>)
     ELSE LET insertPos == found.value
          IN Applied(Slice(content, 0, insertPos) \o operation.text
                       \o SliceFrom(content, insertPos),
                     [index |-> index + 1, what |-> "inserted after",
                      n |-> occurrence])

\* a variant that always splices after the first match of the anchor
CaseInsertAfterFirstMatch(content, operation, index) ==
  LET occurrence == OccurrenceOr1(operation)
      found == findNthOccurrence(content, operation.anchor, 1)
  IN IF found.thrown THEN Raised(found.message, <<>>)
     ELSE IF found.value = -1
       THEN Raised("Anchor text not found for insert_after", <<occurrence>>)
     ELSE LET insertPos == found.value + Len(operation.anchor)
          IN Applied(Slice(content, 0, insertPos) \o operation.text
                       \o SliceFrom(content, insertPos),
                     [index |-> index + 1, what |-> "inserted after",
                      n |-> occurrence])

CaseInsertAfter(content, operation, index) ==
  LET occurrence == OccurrenceOr1(operation)
      found == findNthOccurrence(content, operation.anchor, occurrence)
  IN IF found.thrown THEN Raised(found.message, <<>>)
     ELSE IF found.value = -1
       THEN Raised("Anchor text not found for insert_after", <<occurrence>>)
     ELSE LET insertPos == found.value + Len(operation.anchor)
          IN Applied(Slice(content, 0, insertPos) \o operation.text
                       \o SliceFrom(content, insertPos),
                     [index |-> index + 1, what |-> "inserted after",
                      n |-> occurrence])

\* a variant that splices at the end of the match
CaseInsertBeforeAtMatchEnd(content, operation, index) ==
  LET occurrence == OccurrenceOr1(operation)
      found == findNthOccurrence(content, operation.anchor, occurrence)
  IN IF found.thrown THEN Raised(found.message, <<>>)
     ELSE IF found.value = -1
       THEN Raised("Anchor text not found for insert_before", <<occurrence>>)
     ELSE LET insertPos == found.value + Len(operation.anchor)
          IN Applied(Slice(content, 0, insertPos) \o operation.text
                       \o SliceFrom(content, insertPos),
                     [index |-> index + 1, what |-> "inserted before",
                      n |-> occurrence])

CaseInsertBefore(content, operation, index) ==
  LET occurrence == OccurrenceOr1(operation)
      found == findNthOccurrence(content, operation.anchor, occurrence)
  IN IF found.thrown THEN Raised(found.message, <<>>)
     ELSE IF found.value = -1
       THEN Raised("Anchor text not found for insert_before", <<occurrence>>)
     ELSE Applied(Slice(content, 0, found.value) \o operation.text
                    \o SliceFrom(content, found.value),
                  [index |-> index + 1, what |-> "inserted before",
                   n |-> occurrence])

\* a variant whose single replacement always takes the first match
CaseReplaceFirstMatch(content, operation, index) ==
  IF operation.allOccurrences
  THEN LET parts == Split(content, operation.target)
       IN IF Len(parts) = 1
          THEN Raised("Target text not found for replace (all occurrences)",
                      <<>>)
          ELSE Applied(Join(parts, operation.text),
                       [index |-> index + 1, what |-> "replaced all",
                        n |-> Len(parts) - 1])
  ELSE LET occurrence == OccurrenceOr1(operation)
           found == findNthOccurrence(content, operation.target, 1)
       IN IF found.thrown THEN Raised(found.message, <<>>)
          ELSE IF found.value = -1
            THEN Raised("Target text not found for replace", <<occurrence>>)
          ELSE Applied(Slice(content, 0, found.value) \o operation.text
                         \o SliceFrom(content,
                                      found.value + Len(operation.target)),
                       [index |-> index + 1, what |-> "replaced occurrence",
                        n |-> occurrence])

\* a variant whose replacement of all occurrences stops after the first one
CaseReplaceAllFirstOnly(content, operation, index) ==
  IF operation.allOccurrences
  THEN LET parts == Split(content, operation.target)
       IN IF Len(parts) = 1
          THEN Raised("Target text not found for replace (all occurrences)",
                      <<>>)
          ELSE Applied(parts[1] \o operation.text
                         \o Join(Tail(parts), operation.target),
                       [index |-> index + 1, what |-> "replaced all",
                        n |-> Len(parts) - 1])
  ELSE LET occurrence == OccurrenceOr1(operation)
           found == findNthOccurrence(content, operation.target, occurrence)
       IN IF found.thrown THEN Raised(found.message, <<>>)
          ELSE IF found.value = -1
            THEN Raised("Target text not found for replace", <<occurrence>>)
          ELSE Applied(Slice(content, 0, found.value) \o operation.text
                         \o SliceFrom(content,
                                      found.value + Len(operation.target)),
                       [index |-> index + 1, what |-> "replaced occurrence",
                        n |-> occurrence])

\* a variant whose replacement of all occurrences does not check that the
\* target was found
CaseReplaceAllUnchecked(content, operation, index) ==
  IF operation.allOccurrences
  THEN LET parts == Split(content, operation.target)
       IN Applied(Join(parts, operation.text),
                  [index |-> index + 1, what |-> "replaced all",
                   n |-> Len(parts) - 1])
  ELSE LET occurrence == OccurrenceOr1(operation)
           found == findNthOccurrence(content, operation.target, occurrence)
       IN IF found.thrown THEN Raised(found.message, <<>>)
          ELSE IF found.value = -1
            THEN Raised("Target text not found for replace", <<occurrence>>)
          ELSE Applied(Slice(content, 0, found.value) \o operation.text
                         \o SliceFrom(content,
                                      found.value + Len(operation.target)),
                       [index |-> index + 1, what |-> "replaced occurrence",
                        n |-> occurrence])

\* a variant that refuses to replace a target by itself
CaseReplaceRejectingSameText(content, operation, index) ==
  IF operation.text = operation.target
  THEN Raised("Target text not found for replace (all occurrences)", <<>>)
  ELSE IF operation.allOccurrences
  THEN LET parts == Split(content, operation.target)
       IN IF Len(parts) = 1
          THEN Raised("Target text not found for replace (all occurrences)",
                      <<>>)
          ELSE Applied(Join(parts, operation.text),
                       [index |-> index + 1, what |-> "replaced all",
                        n |-> Len(parts) - 1])
  ELSE LET occurrence == OccurrenceOr1(operation)
           found == findNthOccurrence(content, operation.target, occurrence)
       IN IF found.thrown THEN Raised(found.message, <<>>)
          ELSE IF found.value = -1
            THEN Raised("Target text not found for replace", <<occurrence>>)
          ELSE Applied(Slice(content, 0, found.value) \o operation.text
                         \o SliceFrom(content,
                                      found.value + Len(operation.target)),
                       [index |-> index + 1, what |-> "replaced occurrence",
                        n |-> occurrence])

\* a variant whose replacement of all occurrences first asks for the
\* occurrence-th match
CaseReplaceAllFromOccurrence(content, operation, index) ==
  LET occurrence == OccurrenceOr1(operation)
      found == findNthOccurrence(content, operation.target, occurrence)
  IN IF found.thrown THEN Raised(found.message, <<>>)
     ELSE IF found.value = -1
       THEN Raised("Target text not found for replace", <<occurrence>>)
     ELSE IF operation.allOccurrences
     THEN LET parts == Split(content, operation.target)
          IN Applied(Join(parts, operation.text),
                     [index |-> index + 1, what |-> "replaced all",
                      n |-> Len(parts) - 1])
     ELSE Applied(Slice(content, 0, found.value) \o operation.text
                    \o SliceFrom(content,
                                 found.value + Len(operation.target)),
                  [index |-> index + 1, what |-> "replaced occurrence",
                   n |-> occurrence])

\* a variant whose replacement of all occurrences reports every offset at
\* which the target matches, overlapping matches included
CaseReplaceAllCountingOverlaps(content, operation, index) ==
  IF operation.allOccurrences
  THEN LET parts == Split(content, operation.target)
       IN IF Len(parts) = 1
          THEN Raised("Target text not found for replace (all occurrences)",
                      <<>>)
          ELSE Applied(Join(parts, operation.text),
                       [index |-> index + 1, what |-> "replaced all",
                        n |-> Cardinality({i \in 0..Len(content) :
                                MatchAt(content, operation.target, i)})])
  ELSE LET occurrence == OccurrenceOr1(operation)
           found == findNthOccurrence(content, operation.target, occurrence)
       IN IF found.thrown THEN Raised(found.message, <<>>)
          ELSE IF found.value = -1
            THEN Raised("Target text not found for replace", <<occurrence>>)
          ELSE Applied(Slice(content, 0, found.value) \o operation.text
                         \o SliceFrom(content,
                                      found.value + Len(operation.target)),
                       [index |-> index + 1, what |-> "replaced occurrence",
                        n |-> occurrence])

CaseReplace(content, operation, index) ==
  IF operation.allOccurrences
  THEN LET parts == Split(content, operation.target)
       IN IF Len(parts) = 1
          THEN Raised("Target text not found for replace (all occurrences)",
                      <<>>)
          ELSE Applied(Join(parts, operation.text),
                       [index |-> index + 1, what |-> "replaced all",
                        n |-> Len(parts) - 1])
  ELSE LET occurrence == OccurrenceOr1(operation)
           found == findNthOccurrence(content, operation.target, occurrence)
       IN IF found.thrown THEN Raised(found.message, <<>>)
          ELSE IF found.value = -1
            THEN Raised("Target text not found for replace", <<occurrence>>)
          ELSE Applied(Slice(content, 0, found.value) \o operation.text
                         \o SliceFrom(content,
                                      found.value + Len(operation.target)),
                       [index |-> index + 1, what |-> "replaced occurrence",
                        n |-> occurrence])

\* a variant that takes endOffset as inclusive
CaseReplaceRangeInclusive(content, operation, index) ==
  LET startOffset == operation.startOffset
      endOffset == operation.endOffset
  IN IF startOffset > endOffset
     THEN Raised("replace_range startOffset must be less than or equal to endOffset",
                 <<>>)
     ELSE IF endOffset > Len(content)
     THEN Raised("replace_range endOffset exceeds file length", <<>>)
     ELSE Applied(Slice(content, 0, startOffset) \o operation.text
                    \o SliceFrom(content, endOffset + 1),
                  [index |-> index + 1, what |-> "replaced characters",
                   startOffset |-> startOffset, endOffset |-> endOffset])

\* a variant without the check of endOffset against the length: slice clamps
CaseReplaceRangeClamped(content, operation, index) ==
  LET startOffset == operation.startOffset
      endOffset == operation.endOffset
  IN IF startOffset > endOffset
     THEN Raised("replace_range startOffset must be less than or equal to endOffset",
                 <<>>)
     ELSE Applied(Slice(content, 0, startOffset) \o operation.text
                    \o SliceFrom(content, endOffset),
                  [index |-> index + 1, what |-> "replaced characters",
                   startOffset |-> startOffset, endOffset |-> endOffset])

CaseReplaceRange(content, operation, index) ==
  LET startOffset == operation.startOffset
      endOffset == operation.endOffset
  IN IF startOffset > endOffset
     THEN Raised("replace_range startOffset must be less than or equal to endOffset",
                 <<>>)
     ELSE IF endOffset > Len(content)
     THEN Raised("replace_range endOffset exceeds file length", <<>>)
     ELSE Applied(Slice(content, 0, startOffset) \o operation.text
                    \o SliceFrom(content, endOffset),
                  [index |-> index + 1, what |-> "replaced characters",
                   startOffset |-> startOffset, endOffset |-> endOffset])

\* a variant of the switch that passes over a type it does not know
ApplyOperationSkippingUnknown(content, operation, index) ==
  CASE operation.type = "append" -> CaseAppend(content, operation, index)
    [] operation.type = "prepend" -> CasePrepend(content, operation, index)
    [] operation.type = "insert_after" ->
         CaseInsertAfter(content, operation, index)
    [] operation.type = "insert_before" ->
         CaseInsertBefore(content, operation, index)
    [] operation.type = "replace" -> CaseReplace(content, operation, index)
    [] operation.type = "replace_range" ->
         CaseReplaceRange(content, operation, index)
    [] OTHER -> Applied(content, [index |-> index + 1, what |-> "skipped"])

\* the switch on operation.type
ApplyOperation(content, operation, index) ==
  CASE operation.type = "append" -> CaseAppend(content, operation, index)
    [] operation.type = "prepend" -> CasePrepend(content, operation, index)
    [] operation.type = "insert_after" ->
         CaseInsertAfter(content, operation, index)
    [] operation.type = "insert_before" ->
         CaseInsertBefore(content, operation, index)
    [] operation.type = "replace" -> CaseReplace(content, operation, index)
    [] operation.type = "replace_range" ->
         CaseReplaceRange(content, operation, index)
    [] OTHER -> Raised("Unsupported operation type", <<>>)

\* a variant that reports the 0-based position
OperationFailureZeroBased(operation, index, raised) ==
  [kind |-> "Failed", index |-> index, type |-> operation.type,
   message |-> raised.message, occurrence |-> raised.occurrence]

\* catch (operationError): the cause wrapped with the 1-based position and
\* the type of the operation
OperationFailure(operation, index, raised) ==
  [kind |-> "Failed", index |-> index + 1, type |-> operation.type,
   message |-> raised.message, occurrence |-> raised.occurrence]

(* ------------------------------- inputs -------------------------------- *)

\* an optional occurrence: absent, or present with a value 0..n
OccurrencesTo(n) == {<<>>} \cup {<<k>> : k \in 0..n}

\* every operation a client can send, schema-conforming or not, over the
\* given texts, anchors/targets, occurrences and offsets
OpsOver(texts, anchors, occs, offsets) ==
  {[type |-> ty, text |-> t] : ty \in {"append", "prepend"}, t \in texts}
  \cup {[type |-> ty, anchor |-> a, text |-> t, occurrence |-> o] :
          ty \in {"insert_after", "insert_before"}, a \in anchors,
          t \in texts, o \in occs}
  \cup {[type |-> "replace", target |-> a, text |-> t, occurrence |-> o,
         allOccurrences |-> all] :
          a \in anchors, t \in texts, o \in occs, all \in BOOLEAN}
  \cup {[type |-> "replace_range", startOffset |-> s, endOffset |-> e,
         text |-> t] : s \in offsets, e \in offsets, t \in texts}
  \cup {[type |-> "delete", text |-> <<>>]}

RawOps ==
  OpsOver(Strs(MaxText), Strs(MaxAnchor), OccurrencesTo(MaxOcc), (-1)..MaxOff)
\* the operation lists of length n
RawBatches(n) == [1..n -> RawOps]

(* -------------------------------- state -------------------------------- *)

VARIABLES
  fileExists,       \* fs.pathExists(fullPath)
  file,             \* the persisted text of fullPath
  pc,               \* where each invocation of the handler stands
  request,          \* the operations argument of the tool call as sent
  operations,       \* the handler's argument
  index,            \* 0-based position of the for loop
  content,          \* let content
  originalContent,  \* const originalContent
  notes,            \* const notes = []
  outcome,          \* what the invocation answers
  probe,            \* a direct call of findNthOccurrence and its result
  disk,             \* the files under the file system root, by path
  tool              \* where a call of write_file or init_vault_config stands

vars == <<fileExists, file, pc, request, operations, index, content,
          originalContent, notes, outcome, probe, disk, tool>>
handlerVars == <<fileExists, file, pc, request, operations, index, content,
                 originalContent, notes, outcome>>
vaultVars == <<disk, tool>>

NoOutcome == [kind |-> "None"]
NoProbe == [called |-> FALSE]
EncodingName == <<"u", "t", "f", "8">>

\* no call of a vault tool made or under way
NoCall == [name |-> "none"]
IdleTool == [pc |-> "idle", calls |-> 0, last |-> NoCall]

\* no file on the disk and no call of a vault tool
NoVault == disk = <<>> /\ tool = IdleTool

InitHandler ==
  /\ fileExists \in BOOLEAN
  /\ file \in (IF fileExists THEN Strs(MaxFile) ELSE {<<>>})
  /\ pc = [p \in Procs |-> "idle"]
  /\ request = [p \in Procs |-> <<>>]
  /\ operations = [p \in Procs |-> <<>>]
  /\ index = [p \in Procs |-> 0]
  /\ content = [p \in Procs |-> <<>>]
  /\ originalContent = [p \in Procs |-> <<>>]
  /\ notes = [p \in Procs |-> <<>>]
  /\ outcome = [p \in Procs |-> NoOutcome]

Init == InitHandler /\ probe = NoProbe /\ NoVault

(* ------------------------------- handler ------------------------------- *)

\* The server validates the arguments against inputSchema; the handler runs
\* only on arguments that conform.
Accept(p, ops) ==
  LET issues == SchemaIssues(ops)
  IN /\ request' = [request EXCEPT ![p] = ops]
     /\ IF issues # {}
        THEN /\ pc' = [pc EXCEPT ![p] = "done"]
             /\ outcome' = [outcome EXCEPT
                  ![p] = [kind |-> "ValidationError", issues |-> issues]]
             /\ UNCHANGED operations
        ELSE /\ pc' = [pc EXCEPT ![p] = "exists"]
             /\ operations' = [operations EXCEPT ![p] = ops]
             /\ UNCHANGED outcome

\* a call of modify_file arrives
Invoke(p) ==
  /\ pc[p] = "idle"
  /\ Len(file) <= MaxFile
  /\ \E n \in 0..MaxOps : \E ops \in RawBatches(n) : Accept(p, ops)
  /\ UNCHANGED <<fileExists, file, index, content, originalContent, notes,
                 probe, vaultVars>>

\* if (!(await fs.pathExists(fullPath))) return "File not found"
PathExists(p) ==
  /\ pc[p] = "exists"
  /\ IF fileExists
     THEN pc' = [pc EXCEPT ![p] = "read"] /\ UNCHANGED outcome
     ELSE /\ pc' = [pc EXCEPT ![p] = "done"]
          /\ outcome' = [outcome EXCEPT ![p] = [kind |-> "NotFound"]]
  /\ UNCHANGED <<fileExists, file, request, operations, index, content,
                 originalContent, notes, probe, vaultVars>>

\* let content = await fs.readFile(...); originalContent = content; notes = []
ReadFile(p) ==
  /\ pc[p] = "read"
  /\ content' = [content EXCEPT ![p] = file]
  /\ originalContent' = [originalContent EXCEPT ![p] = file]
  /\ notes' = [notes EXCEPT ![p] = <<>>]
  /\ index' = [index EXCEPT ![p] = 0]
  /\ pc' = [pc EXCEPT ![p] = "loop"]
  /\ UNCHANGED <<fileExists, file, request, operations, outcome,
                 probe, vaultVars>>

\* a variant that resolves every operation against the text as read
InitialBuffer(p) == originalContent[p]

\* a variant in which every invocation works on the buffer of the first slot
SharedBuffer(p) == content[1]

\* the buffer an operation of the loop is resolved against
RunningBuffer(p) == content[p]

\* a variant that saves the buffer reached when an operation fails
ApplyStepPersisting(p) ==
  /\ pc[p] = "loop"
  /\ index[p] < Len(operations[p])
  /\ LET operation == operations[p][index[p] + 1]
         r == ApplyOperation(content[p], operation, index[p])
     IN IF r.ok
        THEN /\ content' = [content EXCEPT ![p] = r.content]
             /\ notes' = [notes EXCEPT ![p] = Append(@, r.note)]
             /\ index' = [index EXCEPT ![p] = @ + 1]
             /\ UNCHANGED <<pc, outcome, file>>
        ELSE /\ pc' = [pc EXCEPT ![p] = "done"]
             /\ outcome' = [outcome EXCEPT
                  ![p] = [kind |-> "Failed", index |-> index[p] + 1,
                          type |-> operation.type, message |-> r.message,
                          occurrence |-> r.occurrence]]
             /\ file' = content[p]
             /\ UNCHANGED <<content, notes, index>>
  /\ UNCHANGED <<fileExists, request, operations, originalContent,
                 probe, vaultVars>>

\* one iteration of for (const [index, operation] of operations.entries())
ApplyStep(p) ==
  /\ pc[p] = "loop"
  /\ index[p] < Len(operations[p])
  /\ LET operation == operations[p][index[p] + 1]
         r == ApplyOperation(RunningBuffer(p), operation, index[p])
     IN IF r.ok
        THEN /\ content' = [content EXCEPT ![p] = r.content]
             /\ notes' = [notes EXCEPT ![p] = Append(@, r.note)]
             /\ index' = [index EXCEPT ![p] = @ + 1]
             /\ UNCHANGED <<pc, outcome>>
        ELSE /\ pc' = [pc EXCEPT ![p] = "done"]
             /\ outcome' = [outcome EXCEPT
                  ![p] = OperationFailure(operation, index[p], r)]
             /\ UNCHANGED <<content, notes, index>>
  /\ UNCHANGED <<fileExists, file, request, operations, originalContent,
                 probe, vaultVars>>

\* a variant that takes a batch with notes for a batch with changes
NothingNoted(p) == notes[p] = <<>>

\* if (content === originalContent)
LeftUnchanged(p) == content[p] = originalContent[p]

\* a variant that goes on to the writes whatever the buffer holds
EndLoopAlwaysWriting(p) ==
  /\ pc[p] = "loop"
  /\ index[p] = Len(operations[p])
  /\ pc' = [pc EXCEPT ![p] = "write"]
  /\ UNCHANGED <<fileExists, file, request, operations, index, content,
                 originalContent, notes, outcome, probe, vaultVars>>

\* after the loop: the no-op answer, or on to the writes
EndLoop(p) ==
  /\ pc[p] = "loop"
  /\ index[p] = Len(operations[p])
  /\ IF LeftUnchanged(p)
     THEN /\ pc' = [pc EXCEPT ![p] = "done"]
          /\ outcome' = [outcome EXCEPT ![p] = [kind |-> "Unchanged"]]
     ELSE pc' = [pc EXCEPT ![p] = "write"] /\ UNCHANGED outcome
  /\ UNCHANGED <<fileExists, file, request, operations, index, content,
                 originalContent, notes, probe, vaultVars>>

\* await fs.writeFile(fullPath, "utf8"): the data written is the text "utf8"
WriteEncoding(p) ==
  /\ pc[p] = "write"
  /\ file' = EncodingName
  /\ pc' = [pc EXCEPT ![p] = "rewrite"]
  /\ UNCHANGED <<fileExists, request, operations, index, content, originalContent,
                 notes, outcome, probe, vaultVars>>

\* await fs.writeFile(fullPath, content, "utf8"); return the notes
WriteContent(p) ==
  /\ pc[p] = "rewrite"
  /\ file' = content[p]
  /\ pc' = [pc EXCEPT ![p] = "done"]
  /\ outcome' = [outcome EXCEPT
       ![p] = [kind |-> "Changed", notes |-> notes[p]]]
  /\ UNCHANGED <<fileExists, request, operations, index, content, originalContent,
                 notes, probe, vaultVars>>

\* the answer is delivered; the invocation's locals are gone
Respond(p) ==
  /\ pc[p] = "done"
  /\ pc' = [pc EXCEPT ![p] = "idle"]
  /\ request' = [request EXCEPT ![p] = <<>>]
  /\ operations' = [operations EXCEPT ![p] = <<>>]
  /\ index' = [index EXCEPT ![p] = 0]
  /\ content' = [content EXCEPT ![p] = <<>>]
  /\ originalContent' = [originalContent EXCEPT ![p] = <<>>]
  /\ notes' = [notes EXCEPT ![p] = <<>>]
  /\ outcome' = [outcome EXCEPT ![p] = NoOutcome]
  /\ UNCHANGED <<fileExists, file, probe, vaultVars>>

Next ==
  \E p \in Procs :
    \/ Invoke(p)
    \/ PathExists(p)
    \/ ReadFile(p)
    \/ ApplyStep(p)
    \/ EndLoop(p)
    \/ WriteEncoding(p)
    \/ WriteContent(p)
    \/ Respond(p)

Spec == Init /\ [][Next]_vars

\* The handler entered with arguments that were not held against
\* inputSchema: what its own checks and its default case do.
InvokeDirect(p) ==
  /\ pc[p] = "idle"
  /\ Len(file) <= MaxFile
  /\ \E n \in 0..MaxOps : \E ops \in RawBatches(n) :
       /\ request' = [request EXCEPT ![p] = ops]
       /\ operations' = [operations EXCEPT ![p] = ops]
       /\ pc' = [pc EXCEPT ![p] = "exists"]
  /\ UNCHANGED <<fileExists, file, index, content, originalContent, notes,
                 outcome, probe, vaultVars>>

NextEngine ==
  \E p \in Procs :
    \/ InvokeDirect(p)
    \/ PathExists(p)
    \/ ReadFile(p)
    \/ ApplyStep(p)
    \/ EndLoop(p)
    \/ WriteEncoding(p)
    \/ WriteContent(p)
    \/ Respond(p)

SpecEngine == Init /\ [][NextEngine]_vars

\* Two calls of modify_file on the same file, in flight together: the
\* server starts a handler per request and each await lets the other run.
RaceProcs == {1, 2}
RaceFile == <<"a">>

InitRace ==
  /\ fileExists = TRUE
  /\ file = RaceFile
  /\ pc = [p \in RaceProcs |-> "idle"]
  /\ request = [p \in RaceProcs |-> <<>>]
  /\ operations = [p \in RaceProcs |-> <<>>]
  /\ index = [p \in RaceProcs |-> 0]
  /\ content = [p \in RaceProcs |-> <<>>]
  /\ originalContent = [p \in RaceProcs |-> <<>>]
  /\ notes = [p \in RaceProcs |-> <<>>]
  /\ outcome = [p \in RaceProcs |-> NoOutcome]
  /\ probe = NoProbe
  /\ NoVault

\* the one call of modify_file made in slot p
InvokeOnce(p) ==
  /\ pc[p] = "idle"
  /\ \E n \in 0..MaxRaceOps : \E ops \in RawBatches(n) : Accept(p, ops)
  /\ UNCHANGED <<fileExists, file, index, content, originalContent, notes,
                 probe, vaultVars>>

NextRace ==
  \E p \in RaceProcs :
    \/ InvokeOnce(p)
    \/ PathExists(p)
    \/ ReadFile(p)
    \/ ApplyStep(p)
    \/ EndLoop(p)
    \/ WriteEncoding(p)
    \/ WriteContent(p)

SpecRace == InitRace /\ [][NextRace]_vars

(* --------------------- direct calls of the helpers --------------------- *)

IdleHandler ==
  /\ fileExists = FALSE
  /\ file = <<>>
  /\ pc = [p \in Procs |-> "idle"]
  /\ request = [p \in Procs |-> <<>>]
  /\ operations = [p \in Procs |-> <<>>]
  /\ index = [p \in Procs |-> 0]
  /\ content = [p \in Procs |-> <<>>]
  /\ originalContent = [p \in Procs |-> <<>>]
  /\ notes = [p \in Procs |-> <<>>]
  /\ outcome = [p \in Procs |-> NoOutcome]

\* findNthOccurrence(haystack, needle, occurrence) on its own
InitLocate ==
  /\ IdleHandler
  /\ NoVault
  /\ probe \in {[called |-> FALSE, haystack |-> h, needle |-> n,
                 occurrence |-> k] :
                  h \in Strs(MaxHay), n \in Strs(MaxNeedle), k \in 0..MaxN}

CallLocate ==
  /\ ~probe.called
  /\ probe' = [called |-> TRUE, haystack |-> probe.haystack,
               needle |-> probe.needle, occurrence |-> probe.occurrence,
               result |-> findNthOccurrence(probe.haystack, probe.needle,
                                            probe.occurrence)]
  /\ UNCHANGED <<handlerVars, vaultVars>>

SpecLocate == InitLocate /\ [][CallLocate]_vars

\* one schema-conforming operation applied to a buffer on its own
ProbeOps ==
  {op \in OpsOver(Strs(MaxProbeText), Strs(MaxProbeAnchor),
                  OccurrencesTo(MaxProbeOcc), 0..MaxProbeOff) :
     OperationIssues(op) = {}}

InitOperation ==
  /\ IdleHandler
  /\ NoVault
  /\ probe \in {[called |-> FALSE, content |-> c, operation |-> op,
                 index |-> i] :
                  c \in Strs(MaxBuf), op \in ProbeOps, i \in 0..MaxProbeIndex}

CallOperation ==
  /\ ~probe.called
  /\ probe' = [called |-> TRUE, content |-> probe.content,
               operation |-> probe.operation, index |-> probe.index,
               result |-> ApplyOperation(probe.content, probe.operation,
                                         probe.index)]
  /\ UNCHANGED <<handlerVars, vaultVars>>

SpecOperation == InitOperation /\ [][CallOperation]_vars

(* ------------------------ paths and vault tools ------------------------ *)

\* A path is the sequence of its segments from the file system root.
\* OBSIDIAN_VAULT_PATH holds one vault, "v"; "home" lies outside of it.
ObsidianVaultPath == <<"home", "vaults">>
ConfigFilename == "config.md"
Segments == {"v", "..", ConfigFilename}
Directories == {<<>>, <<"home">>, <<"home", "vaults">>,
                <<"home", "vaults", "v">>}

\* the relative paths of up to n segments a caller can send
RECURSIVE PathsOfLen(_)
PathsOfLen(n) ==
  IF n = 0 THEN {<<>>}
  ELSE {Append(s, c) : s \in PathsOfLen(n - 1), c \in Segments}

PathArgs(n) == UNION {PathsOfLen(k) : k \in 0..n}

\* path.normalize of an absolute path: ".." drops the segment before it and
\* is dropped itself at the root
RECURSIVE Normalize(_, _)
Normalize(done, rest) ==
  IF rest = <<>> THEN done
  ELSE IF Head(rest) = ".."
  THEN Normalize(IF done = <<>> THEN <<>>
                 ELSE SubSeq(done, 1, Len(done) - 1), Tail(rest))
  ELSE Normalize(Append(done, Head(rest)), Tail(rest))

\* path.join(base, relative) for an absolute base
PathJoin(base, relative) == Normalize(<<>>, base \o relative)

\* path p lies strictly below path q
Below(p, q) == Len(p) > Len(q) /\ SubSeq(p, 1, Len(q)) = q

IsDirectory(p) == p \in Directories \/ \E f \in DOMAIN disk : Below(f, p)

\* fs.pathExists(p)
PathExistsOnDisk(p) == p \in DOMAIN disk \/ IsDirectory(p)

\* fs.ensureDir(path.dirname(p)) and fs.writeFile(p, ...) succeed: p is no
\* directory and no file stands where a directory of p is needed
CanWrite(p) ==
  /\ ~IsDirectory(p)
  /\ \A f \in DOMAIN disk : ~Below(p, f)

\* the disk after fs.writeFile(p, data)
Written(p, data) ==
  [f \in DOMAIN disk \cup {p} |-> IF f = p THEN data ELSE disk[f]]

\* getVaultPath(vaultName)
getVaultPath(vaultName) ==
  LET vaultPath == PathJoin(ObsidianVaultPath, vaultName)
  IN IF ~PathExistsOnDisk(vaultPath) THEN Throw("Vault not found")
     ELSE Return(vaultPath)

\* getVaultConfigPath(vaultName)
getVaultConfigPath(vaultName) ==
  LET r == getVaultPath(vaultName)
  IN IF r.thrown THEN r
     ELSE Return([vaultPath |-> r.value,
                  configPath |-> PathJoin(r.value, <<ConfigFilename>>)])

\* a disk whose vault "v" has or has not a config.md written by the user
InitVault ==
  /\ IdleHandler
  /\ probe = NoProbe
  /\ disk \in {<<>>,
               [f \in {<<"home", "vaults", "v", ConfigFilename>>} |->
                  <<"a">>]}
  /\ tool = IdleTool
\* the write_file tool: create or overwrite a file in a vault
write_file ==
  /\ tool.calls < MaxCalls
  /\ \E vaultName \in PathArgs(MaxVaultSegs), filePath \in PathArgs(MaxSegs),
        data \in Strs(MaxText) :
       LET r == getVaultPath(vaultName)
           fullPath == IF r.thrown THEN <<>> ELSE PathJoin(r.value, filePath)
           done == ~r.thrown /\ CanWrite(fullPath)
       IN /\ disk' = IF done THEN Written(fullPath, data) ELSE disk
          /\ tool' = [tool EXCEPT
               !.calls = @ + 1,
               !.last = [name |-> "write_file", vaultName |-> vaultName,
                         filePath |-> filePath,
                         fullPath |-> IF r.thrown THEN <<>>
                                      ELSE <<fullPath>>,
                         answer |-> IF done THEN "written successfully"
                                    ELSE "Error writing file"]]
  /\ UNCHANGED <<handlerVars, probe>>

\* a variant in which an omitted overwrite counts as true
OverwriteOrTrue(overwrite) ==
  IF overwrite = <<>> THEN TRUE ELSE overwrite[1]

\* overwrite = false
OverwriteOrFalse(overwrite) ==
  IF overwrite = <<>> THEN FALSE ELSE overwrite[1]

\* includeStructure = true
IncludeStructureOrTrue(includeStructure) ==
  IF includeStructure = <<>> THEN TRUE ELSE includeStructure[1]

\* the generated config.md, without its timestamp and fixed sections
Template(includeStructure) ==
  <<"# Vault Configuration Guide",
    IF IncludeStructureOrTrue(includeStructure)
    THEN "### Cartelle principali"
    ELSE "Nessuna panoramica automatica disponibile.">>

ConfigAnswer(vaultName, overwrite, configPath, configExists, answer) ==
  [name |-> "init_vault_config", vaultName |-> vaultName,
   overwrite |-> overwrite, configPath |-> configPath,
   configExists |-> configExists, answer |-> answer]

\* init_vault_config up to its early return: the paths, the existence check
InitVaultConfigCheck ==
  /\ tool.pc = "idle"
  /\ tool.calls < MaxCalls
  /\ \E vaultName \in PathArgs(MaxVaultSegs),
        overwrite \in {<<>>, <<TRUE>>, <<FALSE>>},
        includeStructure \in {<<>>, <<TRUE>>, <<FALSE>>} :
       LET r == getVaultConfigPath(vaultName)
           configExists == PathExistsOnDisk(r.value.configPath)
       IN IF r.thrown
          THEN tool' = [pc |-> "idle", calls |-> tool.calls + 1,
                        last |-> ConfigAnswer(vaultName, overwrite, <<>>,
                                              <<>>, "Errore")]
          ELSE IF configExists /\ ~OverwriteOrFalse(overwrite)
          THEN tool' = [pc |-> "idle", calls |-> tool.calls + 1,
                        last |-> ConfigAnswer(vaultName, overwrite,
                                              <<r.value.configPath>>,
                                              <<configExists>>,
                                              "esiste gia")]
          ELSE tool' = [pc |-> "checked", calls |-> tool.calls + 1,
                        last |-> tool.last,
                        config |-> [vaultName |-> vaultName,
                                    overwrite |-> overwrite,
                                    includeStructure |-> includeStructure,
                                    configPath |-> r.value.configPath,
                                    configExists |-> configExists]]
  /\ UNCHANGED <<handlerVars, probe, disk>>

\* init_vault_config from the template to await fs.writeFile(configPath, ...)
InitVaultConfigWrite ==
  /\ tool.pc = "checked"
  /\ LET c == tool.config
         done == CanWrite(c.configPath)
     IN /\ disk' = IF done
                   THEN Written(c.configPath, Template(c.includeStructure))
                   ELSE disk
        /\ tool' = [pc |-> "idle", calls |-> tool.calls,
                    last |-> ConfigAnswer(c.vaultName, c.overwrite,
                                          <<c.configPath>>,
                                          <<c.configExists>>,
                                          IF done THEN "generato o aggiornato"
                                          ELSE "Errore")]
  /\ UNCHANGED <<handlerVars, probe>>

NextVault ==
  \/ write_file
  \/ InitVaultConfigCheck
  \/ InitVaultConfigWrite

SpecVault == InitVault /\ [][NextVault]_vars

(* ------------------------------ read_file ------------------------------ *)

LF == "\n"
CR == "\r"
ReadChars == {"a", CR, LF}

RECURSIVE ReadTextsOfLen(_)
ReadTextsOfLen(n) ==
  IF n = 0 THEN {<<>>}
  ELSE {Append(s, c) : s \in ReadTextsOfLen(n - 1), c \in ReadChars}

ReadTexts(n) == UNION {ReadTextsOfLen(k) : k \in 0..n}

\* content.split(/\r?\n/): cur is the line collected so far
RECURSIVE SplitLinesFrom(_, _, _)
SplitLinesFrom(s, i, cur) ==
  IF i > Len(s) THEN <<cur>>
  ELSE IF s[i] = LF THEN <<cur>> \o SplitLinesFrom(s, i + 1, <<>>)
  ELSE IF s[i] = CR /\ i < Len(s) /\ s[i + 1] = LF
  THEN <<cur>> \o SplitLinesFrom(s, i + 2, <<>>)
  ELSE SplitLinesFrom(s, i + 1, Append(cur, s[i]))

SplitLines(s) == SplitLinesFrom(s, 1, <<>>)

\* content.includes("\r\n") ? "\r\n" : "\n"
Eol(fileText) ==
  IF \E i \in 1..(Len(fileText) - 1) : fileText[i] = CR /\ fileText[i + 1] = LF
  THEN <<CR, LF>> ELSE <<LF>>

\* z.number().int().min(1).optional()
LineNumberOK(n) == n = <<>> \/ n[1] >= 1

\* a variant whose slice stops one line early
ReadLinesExclusive(fileText, startLine, endLine) ==
  IF endLine # <<>> /\ startLine # <<>> /\ endLine[1] < startLine[1]
  THEN [kind |-> "EndBeforeStart"]
  ELSE IF startLine = <<>> /\ endLine = <<>>
  THEN [kind |-> "Whole", text |-> fileText]
  ELSE LET lines == SplitLines(fileText)
           totalLines == Len(lines)
           effectiveStart == IF startLine # <<>> THEN startLine[1] ELSE 1
           effectiveEnd == IF endLine # <<>> THEN Min(endLine[1], totalLines)
                           ELSE totalLines
       IN IF effectiveStart > totalLines
          THEN [kind |-> "StartExceeds", start |-> effectiveStart,
                total |-> totalLines]
          ELSE LET normalizedStart == Max(effectiveStart, 1)
                   normalizedEnd == Max(effectiveEnd, normalizedStart)
               IN [kind |-> "Lines", start |-> normalizedStart,
                   end |-> normalizedEnd, total |-> totalLines,
                   text |-> Join(Slice(lines, normalizedStart - 1,
                                       normalizedEnd - 1), Eol(fileText))]

\* the read_file handler on the text of an existing file
ReadLines(fileText, startLine, endLine) ==
  IF endLine # <<>> /\ startLine # <<>> /\ endLine[1] < startLine[1]
  THEN [kind |-> "EndBeforeStart"]
  ELSE IF startLine = <<>> /\ endLine = <<>>
  THEN [kind |-> "Whole", text |-> fileText]
  ELSE LET lines == SplitLines(fileText)
           totalLines == Len(lines)
           effectiveStart == IF startLine # <<>> THEN startLine[1] ELSE 1
           effectiveEnd == IF endLine # <<>> THEN Min(endLine[1], totalLines)
                           ELSE totalLines
       IN IF effectiveStart > totalLines
          THEN [kind |-> "StartExceeds", start |-> effectiveStart,
                total |-> totalLines]
          ELSE LET normalizedStart == Max(effectiveStart, 1)
                   normalizedEnd == Max(effectiveEnd, normalizedStart)
               IN [kind |-> "Lines", start |-> normalizedStart,
                   end |-> normalizedEnd, total |-> totalLines,
                   text |-> Join(Slice(lines, normalizedStart - 1,
                                       normalizedEnd), Eol(fileText))]

\* a call of read_file: the schema, the existence check, the handler
read_file(exists, fileText, startLine, endLine) ==
  IF ~LineNumberOK(startLine) \/ ~LineNumberOK(endLine)
  THEN [kind |-> "ValidationError"]
  ELSE IF ~exists THEN [kind |-> "NotFound"]
  ELSE ReadLines(fileText, startLine, endLine)

LineNumbersTo(n) == {<<>>} \cup {<<k>> : k \in 0..n}

InitRead ==
  /\ IdleHandler
  /\ NoVault
  /\ probe \in {[called |-> FALSE, exists |-> x, content |-> c,
                 startLine |-> s, endLine |-> e] :
                  x \in BOOLEAN, c \in ReadTexts(MaxReadLen),
                  s \in LineNumbersTo(MaxLine), e \in LineNumbersTo(MaxLine)}

CallRead ==
  /\ ~probe.called
  /\ probe' = [called |-> TRUE, exists |-> probe.exists,
               content |-> probe.content, startLine |-> probe.startLine,
               endLine |-> probe.endLine,
               result |-> read_file(probe.exists, probe.content,
                                    probe.startLine, probe.endLine)]
  /\ UNCHANGED <<handlerVars, vaultVars>>

SpecRead == InitRead /\ [][CallRead]_vars

(* ------------------------- reference definitions ----------------------- *)

\* the offsets at which needle occurs in h, at or after offset from
MatchOffsets(h, needle, from) ==
  {i \in from..Len(h) : MatchAt(h, needle, i)}

Least(S) == CHOOSE x \in S : \A y \in S : x <= y

\* the left-to-right non-overlapping enumeration of the matches of a
\* non-empty needle: each match is the leftmost one that starts at or after
\* the end of the match before it
RECURSIVE Enumeration(_, _, _)
Enumeration(h, needle, from) ==
  LET S == MatchOffsets(h, needle, from)
  IN IF S = {} THEN <<>>
     ELSE <<Least(S)>> \o Enumeration(h, needle, Least(S) + Len(needle))

\* r is h with the half-open span [s, e) replaced by text
IsSplice(r, h, s, e, text) ==
  /\ Len(r) = Len(h) - (e - s) + Len(text)
  /\ \A i \in 1..s : r[i] = h[i]
  /\ \A i \in 1..Len(text) : r[s + i] = text[i]
  /\ \A i \in (e + 1)..Len(h) : r[i - e + s + Len(text)] = h[i]

\* the operation can be applied to the buffer buf
CanApply(buf, op) ==
  CASE op.type \in {"append", "prepend"} -> TRUE
    [] op.type \in {"insert_after", "insert_before"} ->
         /\ op.anchor # <<>>
         /\ (IF op.occurrence = <<>> THEN 1 ELSE op.occurrence[1])
              <= Len(Enumeration(buf, op.anchor, 0))
    [] op.type = "replace" ->
         /\ op.target # <<>>
         /\ IF op.allOccurrences
            THEN Enumeration(buf, op.target, 0) # <<>>
            ELSE (IF op.occurrence = <<>> THEN 1 ELSE op.occurrence[1])
                   <= Len(Enumeration(buf, op.target, 0))
    [] op.type = "replace_range" ->
         op.startOffset <= op.endOffset /\ op.endOffset <= Len(buf)
    [] OTHER -> FALSE

(* -------------------------------- claims ------------------------------- *)

\* C7: for a non-empty needle and occurrence n >= 1, findNthOccurrence
\* returns the start offset of the n-th match of the left-to-right
\* non-overlapping enumeration, and -1 exactly when the enumeration has fewer
\* than n matches; in "ababab" the needle "ab" is at 2 for n = 2, at 4 for
\* n = 3 and not found for n = 4.
C7_NthNonOverlapping ==
  (probe.called /\ probe.needle # <<>> /\ probe.occurrence >= 1) =>
    LET e == Enumeration(probe.haystack, probe.needle, 0)
    IN /\ ~probe.result.thrown
       /\ (probe.occurrence <= Len(e)
             => probe.result.value = e[probe.occurrence])
       /\ (probe.occurrence > Len(e) <=> probe.result.value = -1)
       /\ (probe.haystack = <<"a", "b", "a", "b", "a", "b">>
           /\ probe.needle = <<"a", "b">>)
            => /\ probe.occurrence = 2 => probe.result.value = 2
               /\ probe.occurrence = 3 => probe.result.value = 4
               /\ probe.occurrence = 4 => probe.result.value = -1

\* the third match of "ab" in "ababab", found at offset 4
C7_Witness ==
  /\ probe.called
  /\ probe.haystack = <<"a", "b", "a", "b", "a", "b">>
  /\ probe.needle = <<"a", "b">>
  /\ probe.occurrence = 3
  /\ probe.result = Return(4)

\* C9: for startOffset <= endOffset <= length(buffer), replace_range yields
\* buffer[0,startOffset) + text + buffer[endOffset,length): exactly the
\* half-open span is replaced and every character outside it is kept in
\* order; (2, 5, "Z") on "abcdefg" yields "abZfg".
C9_ReplaceRangeSplice ==
  /\ (probe.called /\ probe.operation.type = "replace_range"
      /\ probe.operation.startOffset <= probe.operation.endOffset
      /\ probe.operation.endOffset <= Len(probe.content))
       => /\ probe.result.ok
          /\ IsSplice(probe.result.content, probe.content,
                      probe.operation.startOffset, probe.operation.endOffset,
                      probe.operation.text)
  /\ ApplyOperation(<<"a", "b", "c", "d", "e", "f", "g">>,
                    [type |-> "replace_range", startOffset |-> 2,
                     endOffset |-> 5, text |-> <<"Z">>], 0).content
       = <<"a", "b", "Z", "f", "g">>

\* the span [1, 3) of "abab" replaced by "b"
C9_Witness ==
  /\ probe.called
  /\ probe.operation.type = "replace_range"
  /\ probe.content = <<"a", "b", "a", "b">>
  /\ probe.operation.startOffset = 1
  /\ probe.operation.endOffset = 3
  /\ probe.operation.text = <<"b">>
  /\ probe.result.ok
  /\ probe.result.content = <<"a", "b", "b">>

\* C10: insert_after with a non-empty anchor whose occurrence-th match is at
\* offset o yields buffer[0,o+len(anchor)) + text + buffer[o+len(anchor),end);
\* when that match does not exist the operation fails; anchor "foo",
\* occurrence 1, text "X" on "foofoo" yields "fooXfoo".
C10_InsertAfterMatchEnd ==
  /\ (probe.called /\ probe.operation.type = "insert_after"
      /\ probe.operation.anchor # <<>>)
       => LET e == Enumeration(probe.content, probe.operation.anchor, 0)
              k == IF probe.operation.occurrence = <<>> THEN 1
                   ELSE probe.operation.occurrence[1]
          IN IF k <= Len(e)
             THEN /\ probe.result.ok
                  /\ IsSplice(probe.result.content, probe.content,
                              e[k] + Len(probe.operation.anchor),
                              e[k] + Len(probe.operation.anchor),
                              probe.operation.text)
             ELSE /\ ~probe.result.ok
                  /\ probe.result.message
                       = "Anchor text not found for insert_after"
                  /\ probe.result.occurrence = <<k>>
  /\ ApplyOperation(<<"f", "o", "o", "f", "o", "o">>,
                    [type |-> "insert_after", anchor |-> <<"f", "o", "o">>,
                     text |-> <<"X">>, occurrence |-> <<1>>], 0).content
       = <<"f", "o", "o", "X", "f", "o", "o">>

\* "b" inserted after the first "ab" of "abab"
C10_Witness ==
  /\ probe.called
  /\ probe.operation.type = "insert_after"
  /\ probe.content = <<"a", "b", "a", "b">>
  /\ probe.operation.anchor = <<"a", "b">>
  /\ probe.operation.occurrence = <<1>>
  /\ probe.operation.text = <<"b">>
  /\ probe.result.ok
  /\ probe.result.content = <<"a", "b", "b", "a", "b">>

\* the operation the loop of invocation p is about to apply
CurrentOp(p) == operations[p][index[p] + 1]

\* invocation p takes an iteration of its loop in this step
StepsLoop(p) ==
  /\ pc[p] = "loop"
  /\ index[p] < Len(operations[p])
  /\ (pc'[p] # "loop" \/ index'[p] # index[p])

\* C1: operation k of a batch resolves its anchor, target, occurrence and
\* range bounds against the buffer left by operations 1..k-1, not against
\* the text as read: an iteration succeeds exactly when its operation can be
\* applied to the running buffer, and [append(t), insert_after(anchor t, u)]
\* on a text without t ends with text + t + u (on "": "bar!").
C1_ResolvesAgainstRunningBuffer ==
  /\ [](\A p \in Procs :
          (/\ pc[p] = "done" /\ outcome[p].kind # "NotFound"
           /\ Len(operations[p]) = 2
           /\ operations[p][1].type = "append"
           /\ operations[p][1].text # <<>>
           /\ operations[p][2].type = "insert_after"
           /\ operations[p][2].anchor = operations[p][1].text
           /\ operations[p][2].occurrence \in {<<>>, <<1>>}
           /\ Enumeration(originalContent[p], operations[p][1].text, 0) = <<>>)
            => /\ outcome[p].kind = "Changed"
               /\ file = originalContent[p] \o operations[p][1].text
                           \o operations[p][2].text)
  /\ [][\A p \in Procs :
          StepsLoop(p) =>
            (index'[p] = index[p] + 1 <=> CanApply(content[p], CurrentOp(p)))
       ]_vars

\* [append("a"), insert_after(anchor "a", "b")] on the empty text gives "ab"
C1_Witness ==
  \E p \in Procs :
    /\ pc[p] = "done"
    /\ originalContent[p] = <<>>
    /\ operations[p] = <<[type |-> "append", text |-> <<"a">>],
                         [type |-> "insert_after", anchor |-> <<"a">>,
                          text |-> <<"b">>, occurrence |-> <<>>]>>
    /\ outcome[p].kind = "Changed"
    /\ file = <<"a", "b">>

\* C2: when an operation of the batch fails nothing is written: the
\* persisted text is the text read, also when earlier operations succeeded,
\* and the answer carries no buffer.
C2_FailureWritesNothing ==
  \A p \in Procs :
    outcome[p].kind = "Failed" =>
      /\ pc[p] = "done"
      /\ file = originalContent[p]
      /\ DOMAIN outcome[p] = {"kind", "index", "type", "message", "occurrence"}

\* the second operation failed after the first had changed the buffer
C2_Witness ==
  \E p \in Procs :
    /\ outcome[p].kind = "Failed"
    /\ outcome[p].index = 2
    /\ content[p] # originalContent[p]
    /\ file = originalContent[p]

\* the causes an operation of each type fails with
CausesOf(op) ==
  CASE op.type = "insert_after" -> {"Anchor text not found for insert_after"}
    [] op.type = "insert_before" -> {"Anchor text not found for insert_before"}
    [] op.type = "replace" ->
         IF op.allOccurrences
         THEN {"Target text not found for replace (all occurrences)"}
         ELSE {"Target text not found for replace"}
    [] op.type = "replace_range" ->
         {"replace_range startOffset must be less than or equal to endOffset",
          "replace_range endOffset exceeds file length"}
    [] OTHER -> {}

\* C3: a failed batch names the 1-based position of the first operation that
\* cannot be applied to the running buffer, with its type and the cause; the
\* operations before it were applied, none after it is.
C3_FailureNamesFirstFailing ==
  \A p \in Procs :
    outcome[p].kind = "Failed" =>
      LET k == outcome[p].index
      IN /\ k \in 1..Len(operations[p])
         /\ k = index[p] + 1
         /\ Len(notes[p]) = k - 1
         /\ outcome[p].type = operations[p][k].type
         /\ ~CanApply(content[p], operations[p][k])
         /\ outcome[p].message \in CausesOf(operations[p][k])

\* operation 2 of 2 failed after operation 1 was applied
C3_Witness ==
  \E p \in Procs :
    /\ outcome[p].kind = "Failed"
    /\ outcome[p].index = 2
    /\ outcome[p].type = "replace"
    /\ Len(notes[p]) = 1
    /\ CanApply(originalContent[p], operations[p][2])

\* C4: when every operation succeeds and the final buffer equals the text
\* read, the answer is Unchanged, not Changed, and the file is not written.
C4_NoNetChangeIsUnchanged ==
  \A p \in Procs :
    /\ (pc[p] = "done" /\ outcome[p].kind \in {"Changed", "Unchanged"})
         => (outcome[p].kind = "Unchanged"
               <=> content[p] = originalContent[p])
    /\ outcome[p].kind = "Unchanged"
         => (file = originalContent[p] /\ Len(notes[p]) = Len(operations[p]))
    /\ pc[p] \in {"write", "rewrite"} => content[p] # originalContent[p]

\* replace X -> Y followed by replace Y -> X
C4_Witness ==
  \E p \in Procs :
    /\ outcome[p].kind = "Unchanged"
    /\ Len(notes[p]) = 2
    /\ operations[p][1].type = "replace"
    /\ operations[p][2].type = "replace"
    /\ operations[p][1].target = operations[p][2].text
    /\ operations[p][1].text = operations[p][2].target
    /\ operations[p][1].target # operations[p][1].text

\* C5: a call with an empty operation list is answered with a validation
\* error before the file is read or written; it is never answered Changed or
\* Unchanged.
C5_EmptyListRejected ==
  /\ [](\A p \in Procs :
          (pc[p] # "idle" /\ request[p] = <<>>) =>
            /\ pc[p] = "done"
            /\ outcome[p].kind = "ValidationError"
            /\ "operations: too_small" \in outcome[p].issues
            /\ content[p] = <<>> /\ notes[p] = <<>>)
  /\ [][\A p \in Procs :
          (pc[p] = "idle" /\ pc'[p] # "idle" /\ request'[p] = <<>>)
            => (file' = file /\ fileExists' = fileExists)]_vars

\* an empty list sent for an existing, non-empty file
C5_Witness ==
  \E p \in Procs :
    /\ pc[p] = "done"
    /\ request[p] = <<>>
    /\ outcome[p].kind = "ValidationError"
    /\ fileExists
    /\ file # <<>>

\* the request holds an operation with an empty anchor or target
HasEmptyKey(req) ==
  \E i \in 1..Len(req) :
    \/ req[i].type \in {"insert_after", "insert_before"} /\ req[i].anchor = <<>>
    \/ req[i].type = "replace" /\ req[i].target = <<>>

\* C6: an operation with an empty anchor (insert_after, insert_before) or an
\* empty target (replace, with or without allOccurrences) always fails: the
\* call is answered with an error, the empty text is never matched and
\* neither the buffer nor the file changes.
C6_EmptyKeyAlwaysFails ==
  /\ [](\A p \in Procs :
          (pc[p] # "idle" /\ HasEmptyKey(request[p])) =>
            /\ pc[p] = "done"
            /\ outcome[p].kind = "ValidationError"
            /\ outcome[p].issues
                 \cap {"anchor: too_small", "target: too_small"} # {}
            /\ content[p] = <<>> /\ notes[p] = <<>>)
  /\ [][\A p \in Procs :
          (pc[p] = "idle" /\ pc'[p] # "idle" /\ HasEmptyKey(request'[p]))
            => (file' = file /\ fileExists' = fileExists)]_vars

\* replace-all with an empty target sent for a file of two characters
C6_Witness ==
  \E p \in Procs :
    /\ pc[p] = "done"
    /\ outcome[p].kind = "ValidationError"
    /\ Len(request[p]) = 1
    /\ request[p][1].type = "replace"
    /\ request[p][1].target = <<>>
    /\ request[p][1].allOccurrences
    /\ fileExists
    /\ Len(file) = 2

\* C8: replace_range fails whenever startOffset > endOffset or endOffset
\* exceeds the length of the running buffer when the operation executes: the
\* bounds are not clamped, the buffer and the file are left as they are, and
\* the error names the violated bound.
C8_RangeOutOfBoundsFails ==
  [][\A p \in Procs :
       (/\ StepsLoop(p)
        /\ CurrentOp(p).type = "replace_range"
        /\ \/ CurrentOp(p).startOffset > CurrentOp(p).endOffset
           \/ CurrentOp(p).endOffset > Len(content[p]))
         => /\ pc'[p] = "done"
            /\ outcome'[p].kind = "Failed"
            /\ outcome'[p].type = "replace_range"
            /\ outcome'[p].index = index[p] + 1
            /\ outcome'[p].message =
                 (IF CurrentOp(p).startOffset > CurrentOp(p).endOffset
                  THEN "replace_range startOffset must be less than or equal to endOffset"
                  ELSE "replace_range endOffset exceeds file length")
            /\ content'[p] = content[p]
            /\ file' = file]_vars

\* an endOffset within the text read but beyond the buffer as shortened by
\* the operation before
C8_Witness ==
  \E p \in Procs :
    /\ outcome[p].kind = "Failed"
    /\ outcome[p].type = "replace_range"
    /\ outcome[p].index = 2
    /\ outcome[p].message = "replace_range endOffset exceeds file length"
    /\ operations[p][2].endOffset <= Len(originalContent[p])
    /\ operations[p][2].endOffset > Len(content[p])

\* C11: insert_before with a non-empty anchor whose occurrence-th match is at
\* offset o yields buffer[0,o) + text + buffer[o,end), every other character
\* kept; when that match does not exist the operation fails with an error
\* that states the requested occurrence.
C11_InsertBeforeMatchStart ==
  (probe.called /\ probe.operation.type = "insert_before"
   /\ probe.operation.anchor # <<>>)
    => LET e == Enumeration(probe.content, probe.operation.anchor, 0)
           k == IF probe.operation.occurrence = <<>> THEN 1
                ELSE probe.operation.occurrence[1]
       IN IF k <= Len(e)
          THEN /\ probe.result.ok
               /\ IsSplice(probe.result.content, probe.content,
                           e[k], e[k], probe.operation.text)
          ELSE /\ ~probe.result.ok
               /\ probe.result.message
                    = "Anchor text not found for insert_before"
               /\ probe.result.occurrence = <<k>>

\* "b" inserted before the second "ab" of "abab"
C11_Witness ==
  /\ probe.called
  /\ probe.operation.type = "insert_before"
  /\ probe.content = <<"a", "b", "a", "b">>
  /\ probe.operation.anchor = <<"a", "b">>
  /\ probe.operation.occurrence = <<2>>
  /\ probe.operation.text = <<"b">>
  /\ probe.result.ok
  /\ probe.result.content = <<"a", "b", "b", "a", "b">>

\* C12: replace without allOccurrences puts text in the place of exactly the
\* occurrence-th non-overlapping match of the target (the first when
\* occurrence is omitted) and keeps every other character, other matches
\* included; when that occurrence does not exist the operation fails.
C12_ReplaceNthOnly ==
  (probe.called /\ probe.operation.type = "replace"
   /\ ~probe.operation.allOccurrences /\ probe.operation.target # <<>>)
    => LET e == Enumeration(probe.content, probe.operation.target, 0)
           k == IF probe.operation.occurrence = <<>> THEN 1
                ELSE probe.operation.occurrence[1]
       IN IF k <= Len(e)
          THEN /\ probe.result.ok
               /\ IsSplice(probe.result.content, probe.content, e[k],
                           e[k] + Len(probe.operation.target),
                           probe.operation.text)
          ELSE /\ ~probe.result.ok
               /\ probe.result.message = "Target text not found for replace"
               /\ probe.result.occurrence = <<k>>

\* the second "ab" of "abab" replaced by "b", the first one kept
C12_Witness ==
  /\ probe.called
  /\ probe.operation.type = "replace"
  /\ ~probe.operation.allOccurrences
  /\ probe.content = <<"a", "b", "a", "b">>
  /\ probe.operation.target = <<"a", "b">>
  /\ probe.operation.occurrence = <<2>>
  /\ probe.operation.text = <<"b">>
  /\ probe.result.ok
  /\ probe.result.content = <<"a", "b", "b">>

\* h with the matches e[1..k] of a needle of length n replaced by text, the
\* rightmost one first so that the offsets to its left stay valid
RECURSIVE ReplacedUpTo(_, _, _, _, _)
ReplacedUpTo(h, e, k, n, text) ==
  IF k = 0 THEN h
  ELSE ReplacedUpTo(SubSeq(h, 1, e[k]) \o text
                      \o SubSeq(h, e[k] + n + 1, Len(h)),
                    e, k - 1, n, text)

\* C13: replace with allOccurrences = true and a non-empty target that occurs
\* in the buffer replaces every match of the left-to-right non-overlapping
\* enumeration by text, and its note reports as many matches as were
\* replaced; target "a", text "o" on "banana" yields "bonono", 3 matches.
C13_ReplaceAllEveryMatch ==
  /\ (probe.called /\ probe.operation.type = "replace"
      /\ probe.operation.allOccurrences /\ probe.operation.target # <<>>)
       => LET e == Enumeration(probe.content, probe.operation.target, 0)
          IN e # <<>>
               => /\ probe.result.ok
                  /\ probe.result.content
                       = ReplacedUpTo(probe.content, e, Len(e),
                                      Len(probe.operation.target),
                                      probe.operation.text)
                  /\ probe.result.note.what = "replaced all"
                  /\ probe.result.note.n = Len(e)
  /\ LET r == ApplyOperation(<<"b", "a", "n", "a", "n", "a">>,
                             [type |-> "replace", target |-> <<"a">>,
                              text |-> <<"o">>, allOccurrences |-> TRUE,
                              occurrence |-> <<>>], 0)
     IN r.ok /\ r.content = <<"b", "o", "n", "o", "n", "o">> /\ r.note.n = 3

\* both "ab" of "abab" replaced by "b", reported as 2 matches
C13_Witness ==
  /\ probe.called
  /\ probe.operation.type = "replace"
  /\ probe.operation.allOccurrences
  /\ probe.content = <<"a", "b", "a", "b">>
  /\ probe.operation.target = <<"a", "b">>
  /\ probe.operation.text = <<"b">>
  /\ probe.result.ok
  /\ probe.result.content = <<"b", "b">>
  /\ probe.result.note.n = 2

\* C14: replace with allOccurrences = true fails with a target-not-found
\* error whenever the buffer holds no occurrence of the target, and it never
\* succeeds with a match count of zero or less.
C14_ReplaceAllNoMatchFails ==
  (probe.called /\ probe.operation.type = "replace"
   /\ probe.operation.allOccurrences)
    => /\ MatchOffsets(probe.content, probe.operation.target, 0) = {}
            => /\ ~probe.result.ok
               /\ probe.result.message
                    = "Target text not found for replace (all occurrences)"
       /\ probe.result.ok => probe.result.note.n >= 1

\* every "b" of "aa" to be replaced: there is none
C14_Witness ==
  /\ probe.called
  /\ probe.operation.type = "replace"
  /\ probe.operation.allOccurrences
  /\ probe.content = <<"a", "a">>
  /\ probe.operation.target = <<"b">>
  /\ ~probe.result.ok
  /\ probe.result.message
       = "Target text not found for replace (all occurrences)"

\* C15: append yields the running buffer followed by text and prepend yields
\* text followed by the running buffer; neither ever fails, and in sequence
\* each acts on the result of the other: [prepend(t), append(u)] on a text x
\* ends with t + x + u (on "X" with "A" and "B": "AXB").
C15_AppendPrependConcatenate ==
  /\ [](\A p \in Procs :
          (/\ pc[p] = "done" /\ outcome[p].kind \notin {"NotFound", "None"}
           /\ Len(operations[p]) = 2
           /\ operations[p][1].type = "prepend"
           /\ operations[p][2].type = "append")
            => /\ outcome[p].kind \in {"Changed", "Unchanged"}
               /\ content[p] = operations[p][1].text \o originalContent[p]
                                 \o operations[p][2].text
               /\ outcome[p].kind = "Changed" => file = content[p])
  /\ [][\A p \in Procs :
          (StepsLoop(p) /\ CurrentOp(p).type \in {"append", "prepend"})
            => /\ pc'[p] = "loop"
               /\ index'[p] = index[p] + 1
               /\ content'[p] = IF CurrentOp(p).type = "append"
                                THEN content[p] \o CurrentOp(p).text
                                ELSE CurrentOp(p).text \o content[p]
       ]_vars

\* [prepend("a"), append("b")] on "b" gives "abb"
C15_Witness ==
  \E p \in Procs :
    /\ pc[p] = "done"
    /\ originalContent[p] = <<"b">>
    /\ operations[p] = <<[type |-> "prepend", text |-> <<"a">>],
                         [type |-> "append", text |-> <<"b">>]>>
    /\ outcome[p].kind = "Changed"
    /\ file = <<"a", "b", "b">>

\* the wording of the note of a successful operation
NoteWording(op) ==
  CASE op.type = "append" -> "appended"
    [] op.type = "prepend" -> "prepended"
    [] op.type = "insert_after" -> "inserted after"
    [] op.type = "insert_before" -> "inserted before"
    [] op.type = "replace" -> IF op.allOccurrences THEN "replaced all"
                              ELSE "replaced occurrence"
    [] op.type = "replace_range" -> "replaced characters"

\* invocation p has read the file and its notes list is live
HasNotes(p) ==
  \/ pc[p] \in {"loop", "write", "rewrite"}
  \/ pc[p] = "done" /\ outcome[p].kind \in {"Failed", "Unchanged", "Changed"}

\* C16: at every point of a batch the notes list holds exactly one note per
\* operation applied so far, in operation order, note i labelled with the
\* 1-based index i; a note once emitted is never changed or removed, so a
\* Changed outcome of n operations carries exactly n notes.
C16_OneNotePerAppliedOperation ==
  /\ [](\A p \in Procs :
          HasNotes(p)
            => /\ Len(notes[p]) = index[p]
               /\ \A i \in 1..Len(notes[p]) :
                    /\ notes[p][i].index = i
                    /\ notes[p][i].what = NoteWording(operations[p][i])
               /\ outcome[p].kind = "Changed"
                    => /\ outcome[p].notes = notes[p]
                       /\ Len(outcome[p].notes) = Len(operations[p]))
  /\ [][\A p \in Procs :
          (HasNotes(p) /\ pc'[p] # "idle")
            => /\ Len(notes'[p]) >= Len(notes[p])
               /\ SubSeq(notes'[p], 1, Len(notes[p])) = notes[p]
       ]_vars

\* a batch of two operations answered with its two notes
C16_Witness ==
  \E p \in Procs :
    /\ pc[p] = "done"
    /\ outcome[p].kind = "Changed"
    /\ Len(operations[p]) = 2
    /\ operations[p][1].type = "append"
    /\ operations[p][2].type = "replace_range"
    /\ Len(outcome[p].notes) = 2
    /\ outcome[p].notes[1].index = 1
    /\ outcome[p].notes[2].index = 2

\* path p is directory d or lies below it
Inside(p, d) == p = d \/ Below(p, d)

\* C17: every path a tool writes lies inside OBSIDIAN_VAULT_PATH and inside
\* the named vault: for every vaultName and relative path, ".." segments
\* included, a path that resolves outside is rejected and no file outside
\* is written.
C17_PathsConfined ==
  /\ \A f \in DOMAIN disk : Inside(f, ObsidianVaultPath)
  /\ (tool.last.name = "write_file" /\ tool.last.fullPath # <<>>
      /\ ~(/\ Inside(tool.last.fullPath[1], ObsidianVaultPath)
           /\ Inside(tool.last.fullPath[1],
                     ObsidianVaultPath \o tool.last.vaultName)))
       => tool.last.answer = "Error writing file"

\* this step is the existence check of a call of init_vault_config
ChecksConfig ==
  /\ tool.pc = "idle"
  /\ tool'.calls = tool.calls + 1
  /\ tool'.pc = "checked" \/ tool'.last.name = "init_vault_config"

\* the arguments of the call checked in this step
CheckedCall == IF tool'.pc = "checked" THEN tool'.config ELSE tool'.last

\* config.md of the vault vaultName
ConfigPathOf(vaultName) ==
  Normalize(<<>>, ObsidianVaultPath \o vaultName \o <<ConfigFilename>>)

RECURSIVE BatchFrom(_, _, _)
BatchFrom(buf, ops, k) ==
  IF k = Len(ops) THEN [ok |-> TRUE, content |-> buf]
  ELSE LET r == ApplyOperation(buf, ops[k + 1], k)
       IN IF r.ok THEN BatchFrom(r.content, ops, k + 1) ELSE [ok |-> FALSE]

\* the text the call in slot p leaves persisted when it runs alone on a
\* file holding text: a rejected or failing batch leaves the text
Alone(text, p) ==
  IF outcome[p].kind = "ValidationError" THEN text
  ELSE LET r == BatchFrom(text, operations[p], 0)
       IN IF r.ok THEN r.content ELSE text

\* C18: two calls of modify_file on the same file never race: for every
\* interleaving of their read, apply and write steps the persisted file is
\* what the two batches give when applied one after the other in one of the
\* two orders; no batch is lost or applied to a stale buffer.
C18_TwoCallsSerializable ==
  (pc[1] = "done" /\ pc[2] = "done")
    => \/ file = Alone(Alone(RaceFile, 1), 2)
       \/ file = Alone(Alone(RaceFile, 2), 1)

\* both calls are answered Changed and the file holds the text of one of
\* them alone
C18_LostUpdate ==
  /\ pc[1] = "done" /\ pc[2] = "done"
  /\ outcome[1].kind = "Changed" /\ outcome[2].kind = "Changed"
  /\ originalContent[1] = RaceFile /\ originalContent[2] = RaceFile
  /\ file = content[2]
  /\ content[1] # content[2]
  /\ file # Alone(Alone(RaceFile, 1), 2)
  /\ file # Alone(Alone(RaceFile, 2), 1)

Breaks(c) == {i \in 1..Len(c) : c[i] = LF}

\* the k-th line feed of c
NthBreak(c, k) ==
  CHOOSE i \in Breaks(c) : Cardinality({j \in Breaks(c) : j <= i}) = k

\* line k of c: the text between two line feeds, without the carriage
\* return that precedes the line feed that ends it
RefLine(c, k) ==
  LET n == Cardinality(Breaks(c)) + 1
      from == IF k = 1 THEN 1 ELSE NthBreak(c, k - 1) + 1
      to == IF k = n THEN Len(c) ELSE NthBreak(c, k) - 1
  IN IF k < n /\ to >= from /\ c[to] = CR THEN SubSeq(c, from, to - 1)
     ELSE SubSeq(c, from, to)

\* lines k..e of c, joined by eol
RECURSIVE RefExcerpt(_, _, _, _)
RefExcerpt(c, k, e, eol) ==
  IF k = e THEN RefLine(c, k)
  ELSE RefLine(c, k) \o eol \o RefExcerpt(c, k + 1, e, eol)

\* C21: read_file with a line range on a file of n lines returns exactly
\* the lines s..e (1-based, inclusive), s = startLine or 1, e = min(endLine,
\* n) or n, and reports that range, with 1 <= s <= e <= n; it answers with an
\* error when endLine < startLine or s > n; without startLine and endLine it
\* returns the whole content.
C21_ReadLineRange ==
  (probe.called /\ probe.exists /\ LineNumberOK(probe.startLine)
   /\ LineNumberOK(probe.endLine))
    => LET c == probe.content
           r == probe.result
           n == Cardinality(Breaks(c)) + 1
           s == IF probe.startLine = <<>> THEN 1 ELSE probe.startLine[1]
           e == IF probe.endLine = <<>> THEN n
                ELSE IF probe.endLine[1] < n THEN probe.endLine[1] ELSE n
       IN IF probe.startLine = <<>> /\ probe.endLine = <<>>
          THEN r.kind = "Whole" /\ r.text = c
          ELSE IF \/ s > n
                  \/ /\ probe.startLine # <<>> /\ probe.endLine # <<>>
                     /\ probe.endLine[1] < probe.startLine[1]
          THEN r.kind \in {"EndBeforeStart", "StartExceeds"}
          ELSE /\ r.kind = "Lines"
               /\ r.start = s /\ r.end = e /\ r.total = n
               /\ 1 <= s /\ s <= e /\ e <= n
               /\ r.text = RefExcerpt(c, s, e, Eol(c))

\* lines 2-3 of a text of four lines, the end line beyond the clamp unused
C21_Witness ==
  /\ probe.called
  /\ probe.exists
  /\ probe.content = <<"a", LF, LF, "a">>
  /\ probe.startLine = <<2>>
  /\ probe.endLine = <<4>>
  /\ probe.result.kind = "Lines"
  /\ probe.result.start = 2
  /\ probe.result.end = 3
  /\ probe.result.total = 3
  /\ probe.result.text = <<LF, "a">>

KnownTypes == {"append", "prepend", "insert_after", "insert_before",
               "replace", "replace_range"}

\* C22: an operation whose type is none of append, prepend, insert_after,
\* insert_before, replace, replace_range makes the batch fail with the
\* unsupported-operation error that names its 1-based index and its type; it
\* is never passed over and the buffer is not persisted.
C22_UnknownTypeFails ==
  /\ [](\A p \in Procs :
          HasNotes(p)
            => /\ \A i \in 1..index[p] : operations[p][i].type \in KnownTypes
               /\ outcome[p].kind \in {"Changed", "Unchanged"}
                    => \A i \in 1..Len(operations[p]) :
                         operations[p][i].type \in KnownTypes
               /\ (outcome[p].kind = "Failed"
                   /\ outcome[p].message = "Unsupported operation type")
                    => file = originalContent[p])
  /\ [][\A p \in Procs :
          (StepsLoop(p) /\ CurrentOp(p).type \notin KnownTypes)
            => /\ pc'[p] = "done"
               /\ outcome'[p].kind = "Failed"
               /\ outcome'[p].message = "Unsupported operation type"
               /\ outcome'[p].index = index[p] + 1
               /\ outcome'[p].type = CurrentOp(p).type
               /\ file' = file
       ]_vars

\* [append("a"), delete] on "b": operation 2 (delete) fails, "b" stays
C22_Witness ==
  \E p \in Procs :
    /\ pc[p] = "done"
    /\ originalContent[p] = <<"b">>
    /\ Len(operations[p]) = 2
    /\ operations[p][1] = [type |-> "append", text |-> <<"a">>]
    /\ operations[p][2].type = "delete"
    /\ outcome[p].kind = "Failed"
    /\ outcome[p].index = 2
    /\ outcome[p].type = "delete"
    /\ outcome[p].message = "Unsupported operation type"
    /\ file = <<"b">>

\* op replaces every occurrence of a target by the target itself
SelfReplace(op) ==
  /\ op.type = "replace"
  /\ op.allOccurrences
  /\ op.text = op.target

\* C23: a replace with allOccurrences = true whose text equals its target,
\* applied to a buffer that contains the target, is no error: it succeeds
\* and leaves the buffer as it is, and a batch made only of such operations
\* ends in the Unchanged outcome.
C23_SelfReplaceUnchanged ==
  /\ [](\A p \in Procs :
          (/\ pc[p] = "done" /\ outcome[p].kind \in {"Failed", "Changed",
                                                     "Unchanged"}
           /\ \A i \in 1..Len(operations[p]) :
                /\ SelfReplace(operations[p][i])
                /\ Enumeration(originalContent[p], operations[p][i].target, 0)
                     # <<>>)
            => /\ outcome[p].kind = "Unchanged"
               /\ file = originalContent[p])
  /\ [][\A p \in Procs :
          (/\ StepsLoop(p) /\ SelfReplace(CurrentOp(p))
           /\ Enumeration(content[p], CurrentOp(p).target, 0) # <<>>)
            => /\ pc'[p] = "loop"
               /\ index'[p] = index[p] + 1
               /\ content'[p] = content[p]
               /\ Len(notes'[p]) = Len(notes[p]) + 1
       ]_vars

\* every "a" of "ab" replaced by "a", then every "b" by "b"
C23_Witness ==
  \E p \in Procs :
    /\ pc[p] = "done"
    /\ originalContent[p] = <<"a", "b">>
    /\ Len(operations[p]) = 2
    /\ SelfReplace(operations[p][1]) /\ operations[p][1].target = <<"a">>
    /\ SelfReplace(operations[p][2]) /\ operations[p][2].target = <<"b">>
    /\ outcome[p].kind = "Unchanged"
    /\ file = <<"a", "b">>

\* C24, as claimed: findNthOccurrence called with an empty needle reports
\* the not-found result, for every haystack and occurrence, exactly as it
\* does when too few matches exist.
C24_EmptyNeedleNotFound ==
  (probe.called /\ probe.needle = <<>>) => probe.result = Return(-1)

\* C24, amended: findNthOccurrence called with an empty needle throws the
\* error "Anchor/target text must not be empty", for every haystack and
\* occurrence; it returns neither an offset nor the not-found result -1,
\* which it keeps for a non-empty needle with too few matches.
C24_EmptyNeedleThrows ==
  probe.called
    => /\ probe.needle = <<>>
            => /\ probe.result.thrown
               /\ probe.result.message
                    = "Anchor/target text must not be empty"
       /\ probe.needle # <<>>
            => /\ ~probe.result.thrown
               /\ probe.result.value = -1
                    <=> Len(Enumeration(probe.haystack, probe.needle, 0))
                          < probe.occurrence
                        \/ probe.occurrence < 1

\* the empty needle looked for in "ab"
C24_Witness ==
  /\ probe.called
  /\ probe.haystack = <<"a", "b">>
  /\ probe.needle = <<>>
  /\ probe.occurrence = 1
  /\ probe.result.thrown

\* C25: with allOccurrences = true the occurrence field of a replace is
\* ignored: for every buffer, target, text and any two occurrence values,
\* values beyond the number of matches included, the resulting buffer, the
\* note and the success or failure are the same.
C25_OccurrenceIgnoredByReplaceAll ==
  (probe.called /\ probe.operation.type = "replace"
   /\ probe.operation.allOccurrences)
    => \A o \in OccurrencesTo(MaxProbeOcc + 2) :
         OccurrenceOK(o)
           => ApplyOperation(probe.content,
                             [probe.operation EXCEPT !.occurrence = o],
                             probe.index) = probe.result

\* every "a" of "aba" replaced by "b" although a third "a" was asked for
C25_Witness ==
  /\ probe.called
  /\ probe.operation.type = "replace"
  /\ probe.operation.allOccurrences
  /\ probe.content = <<"a", "b", "a">>
  /\ probe.operation.target = <<"a">>
  /\ probe.operation.text = <<"b">>
  /\ probe.operation.occurrence = <<3>>
  /\ probe.result.ok
  /\ probe.result.content = <<"b", "b", "b">>
  /\ probe.result.note.n = 2

\* C26: during an invocation of modify_file the file is written at most
\* once, and only with the final buffer of a batch that succeeded and
\* changed the text: at every step the persisted text is either the text
\* read or the final buffer, never any other text.
C26_OriginalOrFinalOnly ==
  \A p \in Procs :
    HasNotes(p)
      => \/ file = originalContent[p]
         \/ /\ index[p] = Len(operations[p])
            /\ file = content[p]

\* between the two writes of a changing batch the file holds "utf8"
C26_EncodingNameOnDisk ==
  \E p \in Procs :
    /\ pc[p] = "rewrite"
    /\ originalContent[p] = <<"a">>
    /\ operations[p] = <<[type |-> "append", text |-> <<"b">>]>>
    /\ content[p] = <<"a", "b">>
    /\ file = EncodingName

\* the n for which findNthOccurrence finds an n-th match of needle in h
Found(h, needle) ==
  {n \in 1..Len(h) : findNthOccurrence(h, needle, n).value # -1}

\* C27: for a non-empty target, replace with allOccurrences = true replaces
\* exactly the matches findNthOccurrence enumerates on the buffer before the
\* operation: the count reported is the largest n for which
\* findNthOccurrence(buffer, target, n) succeeds, and text put in by the
\* replacement is not scanned again, so each original match is replaced once
\* even when text contains target ("a" by "aa" in "aba" gives "aabaa").
C27_ReplaceAllMatchesLocator ==
  /\ (probe.called /\ probe.operation.type = "replace"
      /\ probe.operation.allOccurrences /\ probe.operation.target # <<>>)
       => LET h == probe.content
              t == probe.operation.target
              N == Cardinality(Found(h, t))
              at == [k \in 1..N |-> findNthOccurrence(h, t, k).value]
          IN /\ Found(h, t) = 1..N
             /\ probe.result.ok <=> N >= 1
             /\ probe.result.ok
                  => /\ probe.result.note.n = N
                     /\ probe.result.content
                          = ReplacedUpTo(h, at, N, Len(t),
                                         probe.operation.text)
                     /\ Len(probe.result.content)
                          = Len(h) + N * (Len(probe.operation.text) - Len(t))
  /\ LET r == ApplyOperation(<<"a", "b", "a">>,
                             [type |-> "replace", target |-> <<"a">>,
                              text |-> <<"a", "a">>, allOccurrences |-> TRUE,
                              occurrence |-> <<>>], 0)
     IN r.ok /\ r.content = <<"a", "a", "b", "a", "a">> /\ r.note.n = 2

\* "aa" by "a" in "aaab": one match at offset 0, the overlapping one at
\* offset 1 is no match of its own
C27_Witness ==
  /\ probe.called
  /\ probe.operation.type = "replace"
  /\ probe.operation.allOccurrences
  /\ probe.content = <<"a", "a", "a", "b">>
  /\ probe.operation.target = <<"a", "a">>
  /\ probe.operation.text = <<"a">>
  /\ probe.result.ok
  /\ probe.result.content = <<"a", "a", "b">>
  /\ probe.result.note.n = 1

\* the single replace that puts text before or after the anchor's match
AsReplace(operation) ==
  [type |-> "replace", target |-> operation.anchor,
   text |-> IF operation.type = "insert_before"
            THEN operation.text \o operation.anchor
            ELSE operation.anchor \o operation.text,
   occurrence |-> operation.occurrence, allOccurrences |-> FALSE]

\* C28: for every buffer, non-empty anchor a, text t and occurrence n,
\* insert_before(a, t, n) gives the same buffer and the same success or
\* failure as replace(target a, text t+a, occurrence n), and
\* insert_after(a, t, n) the same as replace(target a, text a+t,
\* occurrence n).
C28_InsertIsReplace ==
  (probe.called /\ probe.operation.type \in {"insert_before", "insert_after"}
   /\ probe.operation.anchor # <<>>)
    => LET r == ApplyOperation(probe.content, AsReplace(probe.operation),
                               probe.index)
       IN /\ r.ok <=> probe.result.ok
          /\ probe.result.ok => r.content = probe.result.content

\* "b" put after the second "a" of "aaba"
C28_Witness ==
  /\ probe.called
  /\ probe.operation.type = "insert_after"
  /\ probe.operation.anchor = <<"a">>
  /\ probe.operation.text = <<"b">>
  /\ probe.operation.occurrence = <<2>>
  /\ probe.content = <<"a", "a", "b", "a">>
  /\ probe.result.ok
  /\ probe.result.content = <<"a", "a", "b", "b", "a">>

\* invocation p has answered after reading the file
Answered(p) ==
  pc[p] = "done" /\ outcome[p].kind \notin {"ValidationError", "NotFound"}

\* the steps invocation p has left at most: one per operation not yet
\* applied, the check for the file, the read, the end of the loop, the writes
Rank(p) ==
  CASE pc[p] = "exists" -> Len(operations[p]) + 5
    [] pc[p] = "read" -> Len(operations[p]) + 4
    [] pc[p] = "loop" -> (Len(operations[p]) - index[p]) + 3
    [] pc[p] = "write" -> 2
    [] pc[p] = "rewrite" -> 1
    [] OTHER -> 0

\* invocation p is under way: called and not yet answered
UnderWay(p) == pc[p] \notin {"idle", "done"}

\* invocation p stands where one of the handler's steps applies: in the loop
\* that is an iteration while operations are left and the end of the loop
\* when none is
CanStep(p) ==
  /\ pc[p] \in {"exists", "read", "loop", "write", "rewrite"}
  /\ pc[p] = "loop" => index[p] \in 0..Len(operations[p])

\* C29: every modify_file invocation on an existing file terminates (an
\* invocation under way can always take a step, and each of its steps brings
\* it nearer to its answer) with exactly one of three outcomes: Failed iff
\* some operation cannot be applied, Unchanged iff all operations succeed and
\* the final buffer equals the initial one, Changed iff all succeed and it
\* differs; the file is written only in the Changed case.
C29_ThreeOutcomes ==
  /\ [](\A p \in Procs :
          /\ UnderWay(p) => CanStep(p)
          /\ Answered(p)
               => /\ outcome[p].kind \in {"Failed", "Unchanged", "Changed"}
                  /\ outcome[p].kind = "Failed"
                       <=> /\ index[p] < Len(operations[p])
                           /\ ~CanApply(content[p], CurrentOp(p))
                  /\ outcome[p].kind = "Unchanged"
                       <=> /\ index[p] = Len(operations[p])
                           /\ content[p] = originalContent[p]
                  /\ outcome[p].kind = "Changed"
                       <=> /\ index[p] = Len(operations[p])
                           /\ content[p] # originalContent[p]
                  /\ outcome[p].kind # "Changed"
                       => file = originalContent[p])
  /\ [][\A p \in Procs :
          /\ UnderWay(p) => Rank(p)' < Rank(p)
          /\ StepsLoop(p)
               => (index'[p] = index[p] + 1
                     <=> CanApply(content[p], CurrentOp(p)))
          /\ file' # file
               => \/ pc'[p] = "rewrite"
                  \/ pc'[p] = "done" /\ outcome'[p].kind = "Changed"]_vars

\* the second operation cannot be applied to the buffer the first one left:
\* Failed, and the file still holds the text read
C29_Witness ==
  \E p \in Procs :
    /\ pc[p] = "done"
    /\ outcome[p].kind = "Failed"
    /\ index[p] = 1
    /\ Len(operations[p]) = 2
    /\ content[p] # originalContent[p]
    /\ file = originalContent[p]

\* C30: whenever findNthOccurrence returns an offset o other than -1,
\* 0 <= o, o + length(needle) <= length(haystack) and the needle stands at
\* haystack[o, o + length(needle)), so the splice positions o and
\* o + length(needle) of insert_before, insert_after and replace lie within
\* the buffer; for an occurrence below 1 it returns -1 and never an offset.
C30_OffsetWithinHaystack ==
  (probe.called /\ ~probe.result.thrown)
    => LET o == probe.result.value
           h == probe.haystack
           needle == probe.needle
       IN /\ o # -1
               => /\ 0 <= o
                  /\ o + Len(needle) <= Len(h)
                  /\ {o, o + Len(needle)} \subseteq 0..Len(h)
                  /\ \A i \in 1..Len(needle) : h[o + i] = needle[i]
                  /\ probe.occurrence >= 1
          /\ probe.occurrence < 1 => o = -1
          /\ \A k \in (-2)..0 : findNthOccurrence(h, needle, k) = Return(-1)

\* the second "ab" of "babab" ends where the haystack ends
C30_Witness ==
  /\ probe.called
  /\ probe.haystack = <<"b", "a", "b", "a", "b">>
  /\ probe.needle = <<"a", "b">>
  /\ probe.occurrence = 2
  /\ ~probe.result.thrown
  /\ probe.result.value = 3

====
